---- MODULE Spec2Model ----
(***************************************************************************)
(* Display comparison app: the reducer-based screen list store             *)
(* (useScreenListControl) and the react-hook-form based App component with *)
(* its validation / recompute pipeline (updateComparison) and the delayed  *)
(* recompute scheduled from the watch subscription.                        *)
(***************************************************************************)
EXTENDS Integers, Sequences, FiniteSets, TLC

VARIABLES
  displays,           \* useScreenListControl: the reducer's state.displays
  lastOp,             \* useScreenListControl: the action dispatched last
  screens,            \* App: the form values, getValues('screens')
  ids,                \* App: the ids useFieldArray holds for the rows
  fields,             \* App: the `fields` of the last render (row ids)
  errors,             \* App: formState.errors, as a set of <<row id, field name>>
  calculatedScreens,  \* App: the published derived results
  errorMsg,           \* App: the published error message
  timers,             \* App: pending setTimeout callbacks, oldest first
  pc,                 \* App: "effect" when the useEffect of a render is due
  nextId,             \* App: the next fresh row id
  events,             \* number of changes made to the form so far
  writer,             \* which code wrote the published state last
  run,                \* App: what updateComparison did in the last step:
                      \* "none" (not called), "done" or "threw"
  args,               \* the arguments of a call of one of the pure functions
  result              \* the function called last and what it returned

storeVars == <<displays, lastOp>>
appVars == <<screens, ids, fields, errors, calculatedScreens, errorMsg, timers,
             pc, nextId, events, writer, run>>
pureVars == <<args, result>>
vars == <<displays, lastOp, screens, ids, fields, errors, calculatedScreens, errorMsg,
          timers, pc, nextId, events, writer, run, args, result>>

(***************************************************************************)
(* Bounds of the model.                                                    *)
(***************************************************************************)
\* number of changes (rows added or removed, values edited, fields validated)
\* in one behaviour; every change schedules at most one timer, which bounds
\* the pending timers as well
MaxEvents == 4
\* largest length of the reducer's displays array
MaxDisplays == 7
\* largest list length passed to the colour functions
MaxIndex == 16

(***************************************************************************)
(* JavaScript numbers.  A number is NaN, +/-Infinity or a finite value     *)
(* kept in fixed point: v is the value times FP, rounded to nearest; as    *)
(* with doubles in this range, a nonzero quotient or product of the values *)
(* used here never rounds to zero.                                         *)
(***************************************************************************)
\* fixed-point precision: values are kept in units of 1/FP
FP == 100

Num(n) == [k |-> "num", v |-> n]
NaN == [k |-> "nan", v |-> 0]
Inf(s) == [k |-> "inf", v |-> s]

\* an integer literal of the source, e.g. N(27)
N(i) == Num(i * FP)

Abs(i) == IF i < 0 THEN 0 - i ELSE i
Sign(i) == IF i < 0 THEN 0 - 1 ELSE IF i > 0 THEN 1 ELSE 0

\* p / q rounded to the nearest integer and away from zero when p # 0, q > 0
RoundDiv(p, q) ==
  LET r == (Abs(p) \div q) + (IF 2 * (Abs(p) % q) >= q THEN 1 ELSE 0)
  IN IF p = 0 THEN 0 ELSE Sign(p) * (IF r = 0 THEN 1 ELSE r)

\* the largest root whose square is a 32-bit integer
MaxRoot == 46340

\* the largest r in lo..hi with r * r <= n, by bisection
RECURSIVE SqrtIn(_, _, _)
SqrtIn(n, lo, hi) ==
  IF lo >= hi THEN lo
  ELSE LET mid == (lo + hi + 1) \div 2
       IN IF mid * mid <= n THEN SqrtIn(n, mid, hi) ELSE SqrtIn(n, lo, mid - 1)

\* integer square root rounded to nearest, n >= 0
ISqrt(n) ==
  LET r == SqrtIn(n, 0, IF n < MaxRoot THEN n ELSE MaxRoot)
  IN IF (n - r * r) > ((r + 1) * (r + 1) - n) THEN r + 1 ELSE r

\* the global isNaN(x)
isNaN(a) == a.k = "nan"

\* a <= 0
LeZero(a) ==
  CASE a.k = "num" -> a.v <= 0
    [] a.k = "inf" -> a.v < 0
    [] OTHER -> FALSE

\* a < b for the finite bound b (used by the min rule)
LtNum(a, b) ==
  CASE a.k = "num" -> a.v < b
    [] a.k = "inf" -> a.v < 0
    [] OTHER -> FALSE

\* a * b
fMul(a, b) ==
  CASE isNaN(a) \/ isNaN(b) -> NaN
    [] a.k = "inf" /\ b.k = "inf" -> Inf(a.v * b.v)
    [] a.k = "inf" -> IF b.v = 0 THEN NaN ELSE Inf(a.v * Sign(b.v))
    [] b.k = "inf" -> IF a.v = 0 THEN NaN ELSE Inf(b.v * Sign(a.v))
    [] OTHER -> Num(RoundDiv(a.v * b.v, FP))

\* a / b
fDiv(a, b) ==
  CASE isNaN(a) \/ isNaN(b) -> NaN
    [] a.k = "inf" /\ b.k = "inf" -> NaN
    [] a.k = "inf" -> Inf(a.v * (IF b.v < 0 THEN 0 - 1 ELSE 1))
    [] b.k = "inf" -> Num(0)
    [] b.v = 0 -> IF a.v = 0 THEN NaN ELSE Inf(Sign(a.v))
    [] OTHER -> Num(Sign(b.v) * RoundDiv(a.v * FP, Abs(b.v)))

\* a + b
fAdd(a, b) ==
  CASE isNaN(a) \/ isNaN(b) -> NaN
    [] a.k = "inf" /\ b.k = "inf" -> IF a.v = b.v THEN a ELSE NaN
    [] a.k = "inf" -> a
    [] b.k = "inf" -> b
    [] OTHER -> Num(a.v + b.v)

\* Math.sqrt(a)
fSqrt(a) ==
  CASE isNaN(a) -> NaN
    [] a.k = "inf" -> IF a.v > 0 THEN a ELSE NaN
    [] a.v < 0 -> NaN
    [] OTHER -> Num(ISqrt(a.v * FP))

\* parseInt(text) of the text of a number input: the integer part, or NaN
\* for the empty text
parseInt(raw) ==
  IF raw.k # "num" THEN NaN
  ELSE Num(Sign(raw.v) * (Abs(raw.v) \div FP) * FP)

(***************************************************************************)
(* Geometry, App.tsx                                                       *)
(***************************************************************************)
\* calculateDimensions that divides by R^2 + 1 instead of its square root
calculateDimensions_NoRoot(diagonal, aspectRatio) ==
  IF LeZero(diagonal) \/ LeZero(aspectRatio)
  THEN [width |-> Num(0), height |-> Num(0), area |-> Num(0)]
  ELSE LET R_squared == fMul(aspectRatio, aspectRatio)
           denominator == fAdd(R_squared, N(1))
           height == fDiv(diagonal, denominator)
           width == fMul(aspectRatio, height)
           area == fMul(width, height)
       IN [width |-> width, height |-> height, area |-> area]

calculateDimensions(diagonal, aspectRatio) ==
  IF LeZero(diagonal) \/ LeZero(aspectRatio)
  THEN [width |-> Num(0), height |-> Num(0), area |-> Num(0)]
  ELSE LET R_squared == fMul(aspectRatio, aspectRatio)
           denominator == fSqrt(fAdd(R_squared, N(1)))
           height == fDiv(diagonal, denominator)
           width == fMul(aspectRatio, height)
           area == fMul(width, height)
       IN [width |-> width, height |-> height, area |-> area]

\* a tuple-based calculateDimensions that returns [height, width]
calculateDimensionsTuple_Swapped(diagonal, aspectRatio) ==
  LET actualAspectRatio == fDiv(aspectRatio[1], aspectRatio[2])
      R_squared == fMul(actualAspectRatio, actualAspectRatio)
      denominator == fSqrt(fAdd(R_squared, N(1)))
      height == fDiv(diagonal, denominator)
      width == fMul(actualAspectRatio, height)
  IN <<height, width>>

\* the tuple-based calculateDimensions: no test of the arguments, returns
\* [width, height]
calculateDimensionsTuple(diagonal, aspectRatio) ==
  LET actualAspectRatio == fDiv(aspectRatio[1], aspectRatio[2])
      R_squared == fMul(actualAspectRatio, actualAspectRatio)
      denominator == fSqrt(fAdd(R_squared, N(1)))
      height == fDiv(diagonal, denominator)
      width == fMul(actualAspectRatio, height)
  IN <<width, height>>

colourPalette ==
  << "#f59e0b", "#10b981", "#ef4444", "#3b82f6",
     "#8b5cf6", "#f97316", "#a855f7", "#6366f1" >>

getNextColour(currentLength) ==
  colourPalette[(currentLength % Len(colourPalette)) + 1]

defaultScreens ==
  << [diagonal |-> N(27), aspectX |-> N(16), aspectY |-> N(9), colour |-> "#3b82f6"],
     [diagonal |-> N(32), aspectX |-> N(21), aspectY |-> N(9), colour |-> "#10b981"] >>

MAX_SCREENS == 6

(***************************************************************************)
(* The screen list store: useScreenListControl and its reducer.            *)
(***************************************************************************)
DisplayInfo(d, x, y, c) ==
  [diagonalSize |-> d, aspectRatio |-> <<x, y>>, colour |-> c]

initialState == [displays |-> << DisplayInfo(N(27), N(16), N(9), "red") >>]

\* the colour of a new display
getRandomColour(currentColours) == "red"

\* the values the caller of updateDisplayInfo may pass
DisplayInfos ==
  { DisplayInfo(N(27), N(16), N(9), "red"),
    DisplayInfo(N(32), N(21), N(9), "blue"),
    DisplayInfo(N(24), N(4), N(3), "green") }

\* the indexes a caller may pass (0-based, also out of range)
Indexes == (0 - 1) .. MaxDisplays

\* Array.prototype.toSpliced on a 0-based array: the clamped start index
ActualStart(arr, start) ==
  IF start < 0
  THEN (IF Len(arr) + start < 0 THEN 0 ELSE Len(arr) + start)
  ELSE (IF start > Len(arr) THEN Len(arr) ELSE start)

\* arr.toSpliced(start, skipCount, ...items)
toSpliced(arr, start, skipCount, items) ==
  LET from == ActualStart(arr, start)
      skip == IF skipCount < 0 THEN 0
              ELSE IF skipCount > Len(arr) - from THEN Len(arr) - from
              ELSE skipCount
  IN SubSeq(arr, 1, from) \o items \o SubSeq(arr, from + skip + 1, Len(arr))

\* arr.toSpliced(start): with skipCount omitted everything from start on is
\* skipped
toSplicedFrom(arr, start) ==
  toSpliced(arr, start, Len(arr) - ActualStart(arr, start), <<>>)

\* an Action of the reducer (index and data as far as the type has them)
Action(type, index, data) == [type |-> type, index |-> index, data |-> data]

\* case 'ADD_DISPLAY'
ReduceAdd(state, payload) == Append(state, payload)

\* case 'REMOVE_DISPLAY'
ReduceRemove(state, payload) == toSplicedFrom(state, payload)

\* UPDATE_DISPLAY_INFO without the test of the index
ReduceUpdate_Unguarded(state, index, data) ==
  toSpliced(state, index, 1, <<data>>)

\* case 'UPDATE_DISPLAY_INFO'
ReduceUpdate(state, index, data) ==
  IF index >= 0 /\ Len(state) > index
  THEN toSpliced(state, index, 1, <<data>>)
  ELSE state

\* case 'RESET'
ReduceReset(state) == initialState.displays

\* the display addDisplay() passes
NewDisplay(state) ==
  DisplayInfo(N(27), N(16), N(9),
              getRandomColour([i \in 1..Len(state) |-> state[i].colour]))

addDisplay ==
  /\ Len(displays) < MaxDisplays
  /\ displays' = ReduceAdd(displays, NewDisplay(displays))
  /\ lastOp' = Action("ADD_DISPLAY", 0, NewDisplay(displays))
  /\ UNCHANGED <<appVars, pureVars>>

removeDisplay ==
  \E index \in Indexes :
    /\ displays' = ReduceRemove(displays, index)
    /\ lastOp' = Action("REMOVE_DISPLAY", index, initialState.displays[1])
    /\ UNCHANGED <<appVars, pureVars>>

updateDisplayInfo ==
  \E index \in Indexes, data \in DisplayInfos :
    /\ displays' = ReduceUpdate(displays, index, data)
    /\ lastOp' = Action("UPDATE_DISPLAY_INFO", index, data)
    /\ UNCHANGED <<appVars, pureVars>>

reset ==
  /\ displays' = ReduceReset(displays)
  /\ lastOp' = Action("RESET", 0, initialState.displays[1])
  /\ UNCHANGED <<appVars, pureVars>>

(***************************************************************************)
(* The App component.                                                      *)
(***************************************************************************)
MsgCorrect == "Please correct the input errors (highlighted in red)."
MsgPositive == "Please ensure all screens have valid, positive diagonal, X, and Y values."
MsgMaximum == "Maximum of 6 screens allowed for comparison."

FieldNames == {"diagonal", "aspectX", "aspectY"}

\* what a user types into the number inputs of a card: "", "-5" and "3" into
\* the diagonal, "0.05" into the aspect X and "" into the aspect Y
Typed ==
  { <<"diagonal", NaN>>, <<"diagonal", Num((0 - 5) * FP)>>, <<"diagonal", Num(3 * FP)>>,
    <<"aspectX", Num(FP \div 20)>>, <<"aspectY", NaN>> }

\* colours a user picks in the colour input
PickedColours == { "#000000" }

\* the screen, its dimensions and the row id in one record
CalculatedScreen(screen, dims, id) ==
  [diagonal |-> screen.diagonal, aspectX |-> screen.aspectX,
   aspectY |-> screen.aspectY, colour |-> screen.colour,
   width |-> dims.width, height |-> dims.height, area |-> dims.area,
   id |-> id]

\* the test of the forEach body
InvalidScreen(screen) ==
  \/ isNaN(screen.diagonal) \/ LeZero(screen.diagonal)
  \/ isNaN(screen.aspectX) \/ LeZero(screen.aspectX)
  \/ isNaN(screen.aspectY) \/ LeZero(screen.aspectY)

\* updateComparison that sets the message for a non-positive value but leaves
\* the derived list in place
updateComparison_KeepsResults(currentScreens, closFields, closErrors) ==
  IF closErrors # {}
  THEN [threw |-> FALSE, errorMsg |-> MsgCorrect, calculatedScreens |-> <<>>]
  ELSE IF Len(currentScreens) > Len(closFields)
  THEN [threw |-> TRUE, errorMsg |-> "", calculatedScreens |-> <<>>]
  ELSE LET hasError == \E i \in 1..Len(currentScreens) : InvalidScreen(currentScreens[i])
           results == [i \in 1..Len(currentScreens) |->
                         CalculatedScreen(currentScreens[i],
                           calculateDimensions(currentScreens[i].diagonal,
                             fDiv(currentScreens[i].aspectX, currentScreens[i].aspectY)),
                           closFields[i])]
       IN IF hasError
          THEN [threw |-> FALSE, errorMsg |-> MsgPositive, calculatedScreens |-> results]
          ELSE [threw |-> FALSE, errorMsg |-> "", calculatedScreens |-> results]

\* updateComparison that drops the last row from the list it publishes
updateComparison_DropsLast(currentScreens, closFields, closErrors) ==
  IF closErrors # {}
  THEN [threw |-> FALSE, errorMsg |-> MsgCorrect, calculatedScreens |-> <<>>]
  ELSE IF Len(currentScreens) > Len(closFields)
  THEN [threw |-> TRUE, errorMsg |-> "", calculatedScreens |-> <<>>]
  ELSE LET hasError == \E i \in 1..Len(currentScreens) : InvalidScreen(currentScreens[i])
           results == [i \in 1..(Len(currentScreens) - 1) |->
                         CalculatedScreen(currentScreens[i],
                           calculateDimensions(currentScreens[i].diagonal,
                             fDiv(currentScreens[i].aspectX, currentScreens[i].aspectY)),
                           closFields[i])]
       IN IF hasError
          THEN [threw |-> FALSE, errorMsg |-> MsgPositive, calculatedScreens |-> <<>>]
          ELSE [threw |-> FALSE, errorMsg |-> "", calculatedScreens |-> results]

\* updateComparison as closed over the `fields` and `errors` of one render,
\* run on the current form values.  fields[index].id throws a TypeError when
\* the form has more rows than the closure's fields.
updateComparison(currentScreens, closFields, closErrors) ==
  IF closErrors # {}
  THEN [threw |-> FALSE, errorMsg |-> MsgCorrect, calculatedScreens |-> <<>>]
  ELSE IF Len(currentScreens) > Len(closFields)
  THEN [threw |-> TRUE, errorMsg |-> "", calculatedScreens |-> <<>>]
  ELSE LET hasError == \E i \in 1..Len(currentScreens) : InvalidScreen(currentScreens[i])
           results == [i \in 1..Len(currentScreens) |->
                         CalculatedScreen(currentScreens[i],
                           calculateDimensions(currentScreens[i].diagonal,
                             fDiv(currentScreens[i].aspectX, currentScreens[i].aspectY)),
                           closFields[i])]
       IN IF hasError
          THEN [threw |-> FALSE, errorMsg |-> MsgPositive, calculatedScreens |-> <<>>]
          ELSE [threw |-> FALSE, errorMsg |-> "", calculatedScreens |-> results]

\* the state writes of one run of updateComparison
Publish(r) ==
  /\ run' = IF r.threw THEN "threw" ELSE "done"
  /\ IF r.threw
     THEN UNCHANGED <<calculatedScreens, errorMsg, writer>>
     ELSE /\ calculatedScreens' = r.calculatedScreens
          /\ errorMsg' = r.errorMsg
          /\ writer' = "updateComparison"

\* a debouncing callback: the new timer replaces the pending ones
Schedule_Debounced(queue, closFields, closErrors) ==
  << [fields |-> closFields, errors |-> closErrors] >>

\* the watch subscription's callback: setTimeout(() => updateComparison(), 50)
\* with the updateComparison of the render that subscribed
Schedule(queue, closFields, closErrors) ==
  Append(queue, [fields |-> closFields, errors |-> closErrors])

\* useFieldArray's remove(index), index 0-based
RemoveAt(arr, index) == toSpliced(arr, index, 1, <<>>)

\* the useEffect: subscribe with the new updateComparison and run it once
Effect ==
  /\ pc = "effect"
  /\ fields' = ids
  /\ Publish(updateComparison(screens, ids, errors))
  /\ pc' = "idle"
  /\ UNCHANGED <<args, result, displays, lastOp, screens, ids, errors, timers, nextId, events>>

\* addScreen at the limit that also empties the derived results
addScreenRejected_ClearsResults ==
  /\ pc = "idle"
  /\ Len(fields) >= MAX_SCREENS
  /\ errorMsg' = MsgMaximum
  /\ calculatedScreens' = <<>>
  /\ writer' = "addScreen"
  /\ run' = "none"
  /\ UNCHANGED <<args, result, displays, lastOp, screens, ids, fields, errors,
                 timers, pc, nextId, events>>

\* addScreen at the limit
addScreenRejected ==
  /\ pc = "idle"
  /\ Len(fields) >= MAX_SCREENS
  /\ errorMsg' = MsgMaximum
  /\ writer' = "addScreen"
  /\ run' = "none"
  /\ UNCHANGED <<args, result, displays, lastOp, screens, ids, fields, errors, calculatedScreens,
                 timers, pc, nextId, events>>

\* addScreen that numbers the new row by its position
addScreen_ReusesId ==
  \E notified \in BOOLEAN :
    /\ pc = "idle"
    /\ Len(fields) < MAX_SCREENS
    /\ events < MaxEvents
    /\ events' = events + 1
    /\ errorMsg' = ""
    /\ writer' = "addScreen"
    /\ screens' = Append(screens,
         [diagonal |-> N(24), aspectX |-> N(16), aspectY |-> N(9),
          colour |-> getNextColour(Len(fields))])
    /\ ids' = Append(ids, Len(ids) + 1)
    /\ nextId' = nextId + 1
    /\ timers' = IF notified THEN Schedule(timers, fields, errors) ELSE timers
    /\ pc' = "effect"
    /\ run' = "none"
    /\ UNCHANGED <<args, result, displays, lastOp, fields, errors, calculatedScreens>>

\* addScreen that assigns every row the colour of its position again
addScreen_Recolours ==
  \E notified \in BOOLEAN :
    /\ pc = "idle"
    /\ Len(fields) < MAX_SCREENS
    /\ events < MaxEvents
    /\ events' = events + 1
    /\ errorMsg' = ""
    /\ writer' = "addScreen"
    /\ screens' = [i \in 1 .. (Len(screens) + 1) |->
         IF i <= Len(screens)
         THEN [screens[i] EXCEPT !.colour = getNextColour(i - 1)]
         ELSE [diagonal |-> N(24), aspectX |-> N(16), aspectY |-> N(9),
               colour |-> getNextColour(Len(fields))]]
    /\ ids' = Append(ids, nextId)
    /\ nextId' = nextId + 1
    /\ timers' = IF notified THEN Schedule(timers, fields, errors) ELSE timers
    /\ pc' = "effect"
    /\ run' = "none"
    /\ UNCHANGED <<args, result, displays, lastOp, fields, errors, calculatedScreens>>

\* addScreen below the limit.  Whether append() calls the watch subscriber
\* before the form renders again is up to react-hook-form: both are modelled.
addScreen ==
  \E notified \in BOOLEAN :
    /\ pc = "idle"
    /\ Len(fields) < MAX_SCREENS
    /\ events < MaxEvents
    /\ events' = events + 1
    /\ errorMsg' = ""
    /\ writer' = "addScreen"
    /\ screens' = Append(screens,
         [diagonal |-> N(24), aspectX |-> N(16), aspectY |-> N(9),
          colour |-> getNextColour(Len(fields))])
    /\ ids' = Append(ids, nextId)
    /\ nextId' = nextId + 1
    /\ timers' = IF notified THEN Schedule(timers, fields, errors) ELSE timers
    /\ pc' = "effect"
    /\ run' = "none"
    /\ UNCHANGED <<args, result, displays, lastOp, fields, errors, calculatedScreens>>

\* the remove button of a card, rendered when screenCount > 1:
\* remove(index); updateComparison()
removeScreen ==
  \E index \in 0 .. (Len(fields) - 1), notified \in BOOLEAN :
    /\ pc = "idle"
    /\ Len(fields) > 1
    /\ events < MaxEvents
    /\ events' = events + 1
    /\ screens' = RemoveAt(screens, index)
    /\ ids' = RemoveAt(ids, index)
    /\ errors' = { e \in errors : e[1] # ids[index + 1] }
    /\ timers' = IF notified THEN Schedule(timers, fields, errors) ELSE timers
    /\ Publish(updateComparison(screens', fields, errors))
    /\ pc' = "effect"
    /\ UNCHANGED <<args, result, displays, lastOp, fields, nextId>>

\* the cards whose inputs are used: the first one
EditRows == { 1 }

\* typing into a number input.  The diagonal input stores parseInt(text); the
\* aspect inputs store the text itself, which the code only uses as a number
\* (isNaN, <=, /), where the empty text counts as 0.
changeField ==
  \E index \in EditRows, typed \in Typed :
    LET name == typed[1]
        raw == typed[2]
    IN /\ pc = "idle"
       /\ events < MaxEvents
       /\ screens' = [screens EXCEPT ![index][name] =
                        IF name = "diagonal" THEN parseInt(raw)
                        ELSE IF raw = NaN THEN Num(0) ELSE raw]
       /\ events' = events + 1
       /\ timers' = Schedule(timers, fields, errors)
       /\ run' = "none"
       /\ UNCHANGED <<args, result, displays, lastOp, ids, fields, errors, calculatedScreens, errorMsg,
                      pc, nextId, writer>>

\* picking a colour: field.onChange(e); updateComparison()
changeColour ==
  \E index \in EditRows, c \in PickedColours :
    /\ pc = "idle"
    /\ events < MaxEvents
    /\ screens' = [screens EXCEPT ![index].colour = c]
    /\ events' = events + 1
    /\ timers' = Schedule(timers, fields, errors)
    /\ Publish(updateComparison(screens', fields, errors))
    /\ UNCHANGED <<args, result, displays, lastOp, ids, fields, errors, pc, nextId>>

\* leaving a number input, or the Calculate button: updateComparison()
calculate ==
  /\ pc = "idle"
  /\ Publish(updateComparison(screens, fields, errors))
  /\ UNCHANGED <<args, result, displays, lastOp, screens, ids, fields, errors, timers, pc, nextId, events>>

\* a timer that sets itself again after running updateComparison
timerFires_Reschedules ==
  /\ pc = "idle"
  /\ timers # <<>>
  /\ Publish(updateComparison(screens, Head(timers).fields, Head(timers).errors))
  /\ timers' = Append(Tail(timers), Head(timers))
  /\ UNCHANGED <<args, result, displays, lastOp, screens, ids, fields, errors, pc, nextId, events>>

\* a timer expires: the updateComparison it closed over runs
timerFires ==
  /\ pc = "idle"
  /\ timers # <<>>
  /\ Publish(updateComparison(screens, Head(timers).fields, Head(timers).errors))
  /\ timers' = Tail(timers)
  /\ UNCHANGED <<args, result, displays, lastOp, screens, ids, fields, errors, pc, nextId, events>>

\* the positiveNumber rule: required, min 0.1
RuleFails(value) == isNaN(value) \/ LtNum(value, FP \div 10)

\* react-hook-form validates one field against positiveNumber and the form
\* renders with the new errors
validateField ==
  \E index \in EditRows, name \in FieldNames :
    LET key == <<ids[index], name>>
        next == IF RuleFails(screens[index][name])
                THEN errors \cup {key} ELSE errors \ {key}
    IN /\ pc = "idle"
       /\ next # errors
       /\ events < MaxEvents
       /\ events' = events + 1
       /\ errors' = next
       /\ pc' = "effect"
       /\ run' = "none"
       /\ UNCHANGED <<args, result, displays, lastOp, screens, ids, fields, calculatedScreens, errorMsg,
                      timers, nextId, writer>>

(***************************************************************************)
(* Specifications.                                                         *)
(***************************************************************************)
InitProgram ==
  /\ displays = initialState.displays
  /\ lastOp = Action("INIT", 0, initialState.displays[1])
  /\ screens = defaultScreens
  /\ ids = <<1, 2>>
  /\ fields = <<1, 2>>
  /\ errors = {}
  /\ calculatedScreens = <<>>
  /\ errorMsg = ""
  /\ timers = <<>>
  /\ pc = "effect"
  /\ nextId = 3
  /\ events = 0
  /\ writer = "useState"
  /\ run = "none"

\* no pure function has been called
NoResult == [fn |-> "none", value |-> <<>>]

Init ==
  /\ InitProgram
  /\ args = [diagonal |-> N(27), aspectX |-> N(16), aspectY |-> N(9), index |-> 0]
  /\ result = NoResult

\* the App component
Next ==
  \/ Effect
  \/ addScreenRejected
  \/ addScreen
  \/ removeScreen
  \/ changeField
  \/ changeColour
  \/ calculate
  \/ timerFires
  \/ validateField

Spec == Init /\ [][Next]_vars

\* the steps of timerFires: the oldest pending timer expires
TimerExpires == pc = "idle" /\ timers # <<>> /\ timers' = Tail(timers)

\* the steps of Effect: the useEffect of a render runs
EffectRuns == pc = "effect" /\ pc' = "idle"

\* the App with its scheduling: a timer that was set expires after its delay,
\* and React runs the effect of a render
SpecFair == Spec /\ WF_timers(TimerExpires) /\ WF_pc(EffectRuns)

\* the screen list store
NextStore ==
  \/ addDisplay
  \/ removeDisplay
  \/ updateDisplayInfo
  \/ reset

SpecStore == Init /\ [][NextStore]_vars

(***************************************************************************)
(* The pure functions, called on arguments of every kind.                  *)
(***************************************************************************)
\* the numbers passed as diagonal, aspectX and aspectY: NaN, -5, 0, 3, 9, 16
CalcValues ==
  { NaN, Num((0 - 5) * FP), Num(0), N(3), N(9), N(16) }

InitPure ==
  /\ InitProgram
  /\ args \in [diagonal : CalcValues, aspectX : CalcValues, aspectY : CalcValues,
               index : 0 .. MaxIndex]
  /\ result = NoResult

\* App.tsx: const ratio = aspectX / aspectY; calculateDimensions(diagonal, ratio)
callCalculateDimensions ==
  /\ result' = [fn |-> "calculateDimensions",
                value |-> calculateDimensions(args.diagonal,
                                              fDiv(args.aspectX, args.aspectY))]
  /\ UNCHANGED <<storeVars, appVars, args>>

\* the tuple-based calculateDimensions(diagonal, [x, y])
callCalculateDimensionsTuple ==
  /\ result' = [fn |-> "calculateDimensionsTuple",
                value |-> calculateDimensionsTuple(args.diagonal,
                                                   <<args.aspectX, args.aspectY>>)]
  /\ UNCHANGED <<storeVars, appVars, args>>

\* getNextColour(fields.length)
callGetNextColour ==
  /\ result' = [fn |-> "getNextColour", value |-> getNextColour(args.index)]
  /\ UNCHANGED <<storeVars, appVars, args>>

\* getRandomColour(state.displays.map(display => display.colour)) of a store
\* whose displays were all added by addDisplay
callGetRandomColour ==
  /\ result' = [fn |-> "getRandomColour",
                value |-> getRandomColour([i \in 1 .. args.index |-> "red"])]
  /\ UNCHANGED <<storeVars, appVars, args>>

NextPure ==
  \/ callCalculateDimensions
  \/ callCalculateDimensionsTuple
  \/ callGetNextColour
  \/ callGetRandomColour

SpecPure == InitPure /\ [][NextPure]_vars

(***************************************************************************)
(* The earlier App component, whose screens have a diagonal and a ratio.   *)
(***************************************************************************)
MsgPositiveRatio ==
  "Please ensure all screens have valid, positive diagonal and ratio values."

colourPaletteRatio ==
  << "amber-500", "emerald-500", "red-500", "blue-500",
     "violet-500", "orange-500", "purple-500", "indigo-500" >>

getNextColourRatio(currentLength) ==
  colourPaletteRatio[(currentLength % Len(colourPaletteRatio)) + 1]

defaultScreensRatio ==
  << [diagonal |-> N(27), ratio |-> fDiv(N(16), N(9)), colour |-> getNextColourRatio(0)],
     [diagonal |-> N(32), ratio |-> fDiv(N(21), N(9)), colour |-> getNextColourRatio(1)] >>

FieldNamesRatio == {"diagonal", "ratio"}

\* what a user types into the number inputs of a card: "" and "3" into the
\* diagonal, "-5" into the ratio
TypedRatio ==
  { <<"diagonal", NaN>>, <<"diagonal", Num(3 * FP)>>, <<"ratio", Num((0 - 5) * FP)>> }

\* the screen, its dimensions and the row id in one record
CalculatedScreenRatio(screen, dims, id) ==
  [diagonal |-> screen.diagonal, ratio |-> screen.ratio, colour |-> screen.colour,
   width |-> dims.width, height |-> dims.height, area |-> dims.area,
   id |-> id]

\* the test of the forEach body
InvalidScreenRatio(screen) ==
  \/ isNaN(screen.diagonal) \/ isNaN(screen.ratio)
  \/ LeZero(screen.diagonal) \/ LeZero(screen.ratio)

\* updateComparison as closed over the `fields` and `errors` of one render,
\* run on the current form values
updateComparisonRatio(currentScreens, closFields, closErrors) ==
  IF closErrors # {}
  THEN [threw |-> FALSE, errorMsg |-> MsgCorrect, calculatedScreens |-> <<>>]
  ELSE IF Len(currentScreens) > Len(closFields)
  THEN [threw |-> TRUE, errorMsg |-> "", calculatedScreens |-> <<>>]
  ELSE LET hasError == \E i \in 1..Len(currentScreens) : InvalidScreenRatio(currentScreens[i])
           results == [i \in 1..Len(currentScreens) |->
                         CalculatedScreenRatio(currentScreens[i],
                           calculateDimensions(currentScreens[i].diagonal,
                                               currentScreens[i].ratio),
                           closFields[i])]
       IN IF hasError
          THEN [threw |-> FALSE, errorMsg |-> MsgPositiveRatio, calculatedScreens |-> <<>>]
          ELSE [threw |-> FALSE, errorMsg |-> "", calculatedScreens |-> results]

\* the useEffect: subscribe with the new updateComparison.  Its comment says
\* "Run calculation on initial load", its body does not call updateComparison.
EffectRatio ==
  /\ pc = "effect"
  /\ fields' = ids
  /\ pc' = "idle"
  /\ UNCHANGED <<args, result, displays, lastOp, screens, ids, errors, calculatedScreens,
                 errorMsg, timers, nextId, events, writer, run>>

\* addScreen at the limit
addScreenRejectedRatio ==
  /\ pc = "idle"
  /\ Len(fields) >= MAX_SCREENS
  /\ errorMsg' = MsgMaximum
  /\ writer' = "addScreen"
  /\ run' = "none"
  /\ UNCHANGED <<args, result, displays, lastOp, screens, ids, fields, errors, calculatedScreens,
                 timers, pc, nextId, events>>

\* addScreen below the limit
addScreenRatio ==
  \E notified \in BOOLEAN :
    /\ pc = "idle"
    /\ Len(fields) < MAX_SCREENS
    /\ events < MaxEvents
    /\ events' = events + 1
    /\ errorMsg' = ""
    /\ writer' = "addScreen"
    /\ screens' = Append(screens,
         [diagonal |-> N(24), ratio |-> fDiv(N(16), N(9)),
          colour |-> getNextColourRatio(Len(fields))])
    /\ ids' = Append(ids, nextId)
    /\ nextId' = nextId + 1
    /\ timers' = IF notified THEN Schedule(timers, fields, errors) ELSE timers
    /\ pc' = "effect"
    /\ run' = "none"
    /\ UNCHANGED <<args, result, displays, lastOp, fields, errors, calculatedScreens>>

\* the remove button of a card: remove(index); updateComparison()
removeScreenRatio ==
  \E index \in 0 .. (Len(fields) - 1), notified \in BOOLEAN :
    /\ pc = "idle"
    /\ Len(fields) > 1
    /\ events < MaxEvents
    /\ events' = events + 1
    /\ screens' = RemoveAt(screens, index)
    /\ ids' = RemoveAt(ids, index)
    /\ errors' = { e \in errors : e[1] # ids[index + 1] }
    /\ timers' = IF notified THEN Schedule(timers, fields, errors) ELSE timers
    /\ Publish(updateComparisonRatio(screens', fields, errors))
    /\ pc' = "effect"
    /\ UNCHANGED <<args, result, displays, lastOp, fields, nextId>>

\* typing into a number input: the form keeps the text, which the code only
\* uses as a number (isNaN, <=, /), where the empty text counts as 0
changeFieldRatio ==
  \E index \in EditRows, typed \in TypedRatio :
    LET name == typed[1]
        raw == typed[2]
    IN /\ pc = "idle"
       /\ events < MaxEvents
       /\ screens' = [screens EXCEPT ![index][name] = IF raw = NaN THEN Num(0) ELSE raw]
       /\ events' = events + 1
       /\ timers' = Schedule(timers, fields, errors)
       /\ run' = "none"
       /\ UNCHANGED <<args, result, displays, lastOp, ids, fields, errors, calculatedScreens, errorMsg,
                      pc, nextId, writer>>

\* picking a colour: field.onChange(e); updateComparison()
changeColourRatio ==
  \E index \in EditRows, c \in PickedColours :
    /\ pc = "idle"
    /\ events < MaxEvents
    /\ screens' = [screens EXCEPT ![index].colour = c]
    /\ events' = events + 1
    /\ timers' = Schedule(timers, fields, errors)
    /\ Publish(updateComparisonRatio(screens', fields, errors))
    /\ UNCHANGED <<args, result, displays, lastOp, ids, fields, errors, pc, nextId>>

\* leaving a number input, or the Calculate button: updateComparison()
calculateRatio ==
  /\ pc = "idle"
  /\ Publish(updateComparisonRatio(screens, fields, errors))
  /\ UNCHANGED <<args, result, displays, lastOp, screens, ids, fields, errors, timers, pc, nextId, events>>

\* a timer expires: the updateComparison it closed over runs
timerFiresRatio ==
  /\ pc = "idle"
  /\ timers # <<>>
  /\ Publish(updateComparisonRatio(screens, Head(timers).fields, Head(timers).errors))
  /\ timers' = Tail(timers)
  /\ UNCHANGED <<args, result, displays, lastOp, screens, ids, fields, errors, pc, nextId, events>>

\* react-hook-form validates one field against positiveNumber and the form
\* renders with the new errors
validateFieldRatio ==
  \E index \in EditRows, name \in FieldNamesRatio :
    LET key == <<ids[index], name>>
        next == IF RuleFails(screens[index][name])
                THEN errors \cup {key} ELSE errors \ {key}
    IN /\ pc = "idle"
       /\ next # errors
       /\ events < MaxEvents
       /\ events' = events + 1
       /\ errors' = next
       /\ pc' = "effect"
       /\ run' = "none"
       /\ UNCHANGED <<args, result, displays, lastOp, screens, ids, fields, calculatedScreens, errorMsg,
                      timers, nextId, writer>>

InitRatio ==
  /\ displays = initialState.displays
  /\ lastOp = Action("INIT", 0, initialState.displays[1])
  /\ screens = defaultScreensRatio
  /\ ids = <<1, 2>>
  /\ fields = <<1, 2>>
  /\ errors = {}
  /\ calculatedScreens = <<>>
  /\ errorMsg = ""
  /\ timers = <<>>
  /\ pc = "effect"
  /\ nextId = 3
  /\ events = 0
  /\ writer = "useState"
  /\ run = "none"
  /\ args = [diagonal |-> N(27), aspectX |-> N(16), aspectY |-> N(9), index |-> 0]
  /\ result = NoResult

\* the earlier App component
NextRatio ==
  \/ EffectRatio
  \/ addScreenRejectedRatio
  \/ addScreenRatio
  \/ removeScreenRatio
  \/ changeFieldRatio
  \/ changeColourRatio
  \/ calculateRatio
  \/ timerFiresRatio
  \/ validateFieldRatio

SpecRatio == InitRatio /\ [][NextRatio]_vars

(***************************************************************************)
(* Properties.                                                             *)
(***************************************************************************)
\* the 0-based index of the last store action names an entry of arr
InRange(arr, index) == index >= 0 /\ index < Len(arr)

\* C1: the collection is never empty: whatever add, remove, update and reset
\* operations were applied, it holds at least one entry.
C1_NeverEmpty == Len(displays) >= 1 /\ Len(screens) >= 1

\* the App's form keeps between 1 and MAX_SCREENS rows (the remove button is
\* rendered for screenCount > 1 only, addScreen tests fields.length >= 6)
App_RowsWithinLimits ==
  /\ Len(screens) >= 1
  /\ Len(screens) <= MAX_SCREENS
  /\ Len(ids) = Len(screens)

\* C2: the collection never holds more than MAX_SCREENS = 6 entries.
C2_AtMostMaxScreens ==
  Len(displays) <= MAX_SCREENS /\ Len(screens) <= MAX_SCREENS

\* C3: remove of an entry, when more than one entry exists, deletes exactly
\* that entry: the others stay, unchanged and in order, and the length
\* decreases by exactly 1.
C3_RemoveDeletesExactlyOne ==
  [][ (/\ lastOp'.type = "REMOVE_DISPLAY"
       /\ Len(displays) > 1
       /\ InRange(displays, lastOp'.index))
      => (/\ Len(displays') = Len(displays) - 1
          /\ displays' = RemoveAt(displays, lastOp'.index)) ]_vars

\* C4: update changes only the targeted entry: with the target present the
\* entry takes the new values and every other entry, the length and the order
\* are unchanged; with the target absent the whole collection is unchanged.
C4_UpdateFrame ==
  [][ lastOp'.type = "UPDATE_DISPLAY_INFO"
      => IF InRange(displays, lastOp'.index)
         THEN /\ Len(displays') = Len(displays)
              /\ displays'[lastOp'.index + 1] = lastOp'.data
              /\ \A j \in 1 .. Len(displays) :
                    j # lastOp'.index + 1 => displays'[j] = displays[j]
         ELSE displays' = displays ]_vars

\* C4 witness: an update of the second of three differing entries took place
C4_Witness ==
  /\ lastOp.type = "UPDATE_DISPLAY_INFO"
  /\ lastOp.index = 1
  /\ Len(displays) = 3
  /\ displays[2] = lastOp.data
  /\ displays[1] # displays[2]
  /\ displays[3] # displays[2]

\* C5: reset restores the initial default state, which consists of exactly
\* two entries (the presets).
C5_ResetTwoPresets ==
  lastOp.type = "RESET"
    => /\ Len(displays) = 2
       /\ \A i \in 1 .. Len(displays) :
            /\ displays[i].diagonalSize = defaultScreens[i].diagonal
            /\ displays[i].aspectRatio =
                 <<defaultScreens[i].aspectX, defaultScreens[i].aspectY>>
            /\ displays[i].colour = defaultScreens[i].colour

\* C6: add without a supplied spec, below 6 entries, appends exactly one entry
\* with diagonal 24, aspect 16:9 and colour colorForIndex(length before the
\* add), leaving the existing entries unchanged.
C6_AddAppendsDefault ==
  [][ (lastOp'.type = "ADD_DISPLAY" /\ Len(displays) < MAX_SCREENS)
      => displays' = Append(displays,
           DisplayInfo(N(24), N(16), N(9), getNextColour(Len(displays)))) ]_vars

\* the published pipeline states
Valid == calculatedScreens # <<>> /\ errorMsg = ""
Invalid == calculatedScreens = <<>> /\ errorMsg # ""

\* C7 (as claimed): in every reachable state the published state is exactly
\* one of Valid or Invalid.
C7_AlwaysValidOrInvalid == Valid \/ Invalid

\* C7 (amended): the published state is exactly one of Valid or Invalid
\* whenever updateComparison was the last to write it.
C7_ValidOrInvalidAfterUpdate ==
  writer = "updateComparison" => ((Valid \/ Invalid) /\ ~(Valid /\ Invalid))

\* C7 witness: updateComparison published Invalid for a non-positive value
C7_Witness ==
  /\ writer = "updateComparison"
  /\ run = "done"
  /\ calculatedScreens = <<>>
  /\ errorMsg = MsgPositive

\* C8: when some entry has a non-positive or NaN diagonal, aspectX or aspectY,
\* the recompute that runs over the collection publishes Invalid: the derived
\* list is emptied and an error message is set.
C8_InvalidEntryPublishesInvalid ==
  (run # "none" /\ \E i \in 1 .. Len(screens) : InvalidScreen(screens[i]))
    => Invalid

\* C9: whenever a recompute publishes Valid, the published list has the length
\* of the collection and its i-th element carries the values of the i-th entry
\* and the dimensions calculated from them.
C9_ValidListMatchesCollection ==
  (run = "done" /\ errorMsg = "")
    => /\ Len(calculatedScreens) = Len(screens)
       /\ \A i \in 1 .. Len(screens) :
            LET c == calculatedScreens[i]
                dims == calculateDimensions(screens[i].diagonal,
                          fDiv(screens[i].aspectX, screens[i].aspectY))
            IN /\ c.diagonal = screens[i].diagonal
               /\ c.aspectX = screens[i].aspectX
               /\ c.aspectY = screens[i].aspectY
               /\ c.colour = screens[i].colour
               /\ c.width = dims.width
               /\ c.height = dims.height
               /\ c.area = dims.area

\* C9 witness: a recompute published Valid for three entries, the first of
\* them edited
C9_Witness ==
  /\ run = "done"
  /\ errorMsg = ""
  /\ Len(calculatedScreens) = 3
  /\ calculatedScreens[1].diagonal = N(3)

Fresh == updateComparison(screens, ids, errors)

\* C11: last write wins: once the edits have stopped and no recompute is
\* pending, the published state is the result of validating and deriving the
\* latest entries, with their ids and the latest field-level errors.
C11_QuiescentPublishesLatest ==
  (pc = "idle" /\ timers = <<>> /\ writer = "updateComparison")
    => /\ calculatedScreens = Fresh.calculatedScreens
       /\ errorMsg = Fresh.errorMsg

\* C12: no sequence of operations and timer firings makes a recompute throw.
C12_NoRecomputeThrows == run # "threw"

\* C13: an Invalid state carries the 'correct the input errors' message
\* exactly when a field-level error is present at the time of the recompute,
\* and the 'positive values' message exactly when there is none but some entry
\* has a non-positive or non-numeric value; the two messages differ.
C13_MessageTellsCase ==
  run = "done"
    => /\ (errorMsg = MsgCorrect) <=> (errors # {})
       /\ (errorMsg = MsgPositive)
            <=> (errors = {} /\ \E i \in 1 .. Len(screens) : InvalidScreen(screens[i]))
       /\ MsgCorrect # MsgPositive

\* a numeric value strictly greater than 0
Positive(value) ==
  \/ value.k = "num" /\ value.v > 0
  \/ value.k = "inf" /\ value.v > 0

\* C14: validation accepts a value exactly when it is numeric and strictly
\* greater than 0, values below 0.1 included: the field rule raises an error
\* only for a value that is not positive, and the test of updateComparison
\* rejects an entry exactly when one of its three values is not positive.
C14_AcceptsExactlyPositive ==
  [][ /\ \A i \in 1 .. Len(ids), name \in FieldNames :
           (<<ids[i], name>> \in errors' /\ <<ids[i], name>> \notin errors)
             => ~Positive(screens[i][name])
      /\ \A i \in 1 .. Len(screens) :
           InvalidScreen(screens[i])
             <=> \E name \in FieldNames : ~Positive(screens[i][name]) ]_vars

\* C15: recompute is idempotent: when two recomputes complete one after the
\* other with no change to the entries or to the field-level errors in
\* between, the second publishes the derived list and message of the first.
C15_RecomputeTwiceSame ==
  [][ (run = "done" /\ run' = "done" /\ screens' = screens /\ ids' = ids
        /\ errors' = errors)
      => (calculatedScreens' = calculatedScreens /\ errorMsg' = errorMsg) ]_vars

\* the diagonal or an aspect component of the call is non-positive or NaN
GuardedInput == \E name \in FieldNames : ~Positive(args[name])

\* C16: the geometry calculator called with a diagonal or an aspect component
\* that is non-positive or NaN returns width 0, height 0 and area 0.
C16_GuardedInputsGiveZeros ==
  /\ (result.fn = "calculateDimensions" /\ GuardedInput)
       => result.value = [width |-> Num(0), height |-> Num(0), area |-> Num(0)]
  /\ (result.fn = "calculateDimensionsTuple" /\ GuardedInput)
       => result.value = <<Num(0), Num(0)>>

\* width^2 + height^2 is diagonal^2 within 2 percent, the tolerance that
\* numbers kept to 1/FP allow for the values used
Pythagorean(width, height, diagonal) ==
  LET sum == fAdd(fMul(width, width), fMul(height, height))
      square == fMul(diagonal, diagonal)
  IN /\ sum.k = "num"
     /\ 50 * Abs(sum.v - square.v) <= square.v

\* width / height is aspectX / aspectY within 2 percent
SameRatio(width, height, aspectX, aspectY) ==
  LET got == fDiv(width, height)
      want == fDiv(aspectX, aspectY)
  IN /\ got.k = "num"
     /\ 50 * Abs(got.v - want.v) <= want.v

\* C17: for diagonal > 0, aspectX > 0 and aspectY > 0 the calculator's result
\* satisfies width^2 + height^2 = diagonal^2 and width / height =
\* aspectX / aspectY within tolerance, with area = width * height.
C17_GeometryOfPositiveInputs ==
  /\ (result.fn = "calculateDimensions" /\ ~GuardedInput)
       => /\ Pythagorean(result.value.width, result.value.height, args.diagonal)
          /\ SameRatio(result.value.width, result.value.height,
                       args.aspectX, args.aspectY)
          /\ result.value.area = fMul(result.value.width, result.value.height)
          /\ Positive(result.value.height)
  /\ (result.fn = "calculateDimensionsTuple" /\ ~GuardedInput)
       => /\ Pythagorean(result.value[1], result.value[2], args.diagonal)
          /\ SameRatio(result.value[1], result.value[2], args.aspectX, args.aspectY)

\* C17 witness: the dimensions of a 16 inch 16:9 screen were calculated
C17_Witness ==
  /\ result.fn = "calculateDimensions"
  /\ args.diagonal = N(16) /\ args.aspectX = N(16) /\ args.aspectY = N(9)
  /\ LtNum(result.value.height, result.value.width.v)
  /\ LtNum(result.value.width, 16 * FP)
  /\ Positive(result.value.height)

C19_ColourOnlyByEdit ==
  [][ \A i \in 1 .. Len(ids), j \in 1 .. Len(ids') :
        ids[i] = ids'[j]
          => \/ screens'[j].colour = screens[i].colour
             \/ /\ ids' = ids
                /\ screens'[j].colour \in PickedColours
                /\ screens' = [screens EXCEPT ![j].colour = screens'[j].colour] ]_vars

\* C19 witness: the second preset kept its colour through an add, the removal
\* of the first row and a recompute
C19_Witness ==
  /\ Len(ids) = 2
  /\ ids[1] = 2
  /\ screens[1].colour = defaultScreens[2].colour
  /\ run = "done"
  /\ Len(calculatedScreens) = 2

\* the reducer store: ADD_DISPLAY and REMOVE_DISPLAY keep the colours of the
\* displays that stay
Store_ColoursKept ==
  [][ lastOp'.type \in {"ADD_DISPLAY", "REMOVE_DISPLAY"}
      => \A i \in 1 .. Len(displays') :
           \/ (i <= Len(displays) /\ displays'[i].colour = displays[i].colour)
           \/ (lastOp'.type = "ADD_DISPLAY" /\ i = Len(displays) + 1) ]_vars

\* C20: the colour of a new entry is cyclic over a fixed palette of at least
\* 8 pairwise distinct colours: the colour for index i is palette[i mod
\* paletteSize], equals the colour for i + paletteSize and differs from the
\* colour for j whenever i and j differ modulo paletteSize.
C20_ColourCycle ==
  LET paletteSize == Len(colourPalette)
      other == { j \in 0 .. (MaxIndex + paletteSize) :
                   j % paletteSize # args.index % paletteSize }
  IN /\ paletteSize >= 8
     /\ \A i, j \in 1 .. paletteSize : colourPalette[i] = colourPalette[j] => i = j
     /\ result.fn = "getNextColour"
          => /\ result.value = colourPalette[(args.index % paletteSize) + 1]
             /\ result.value = getNextColour(args.index + paletteSize)
             /\ \A j \in other : getNextColour(j) # result.value
     /\ result.fn = "getRandomColour"
          => \A j \in other : getRandomColour([i \in 1 .. j |-> "red"]) # result.value

\* C21: every published derived screen carries the id of the entry it was
\* derived from: the i-th element of a published list has the id of the i-th
\* entry of the collection, whose values produced it.
C21_DerivedIdsMatchEntries ==
  (run = "done" /\ errorMsg = "")
    => /\ Len(calculatedScreens) = Len(ids)
       /\ \A i \in 1 .. Len(calculatedScreens) : calculatedScreens[i].id = ids[i]

\* C22: on initial load, without any user edit, a recompute has run over the
\* default collection once the effect of the first render has run: the
\* published state is Valid with one derived screen per default entry (two),
\* in collection order.
C22_InitialLoadPublishes ==
  (pc = "idle" /\ events = 0)
    => /\ Valid
       /\ Len(calculatedScreens) = 2
       /\ \A i \in 1 .. Len(calculatedScreens) :
            /\ calculatedScreens[i].id = ids[i]
            /\ calculatedScreens[i].diagonal = screens[i].diagonal
            /\ calculatedScreens[i].colour = screens[i].colour

\* no entry has a colour picked by the user
NoColourEdited == \A i \in 1 .. Len(screens) : screens[i].colour \notin PickedColours

\* C23: while no colour was edited by the user, the entries of the collection
\* have pairwise distinct colours.
C23_AutoColoursDistinct ==
  NoColourEdited
    => \A i, j \in 1 .. Len(screens) : screens[i].colour = screens[j].colour => i = j

\* C24: a rejected add at capacity changes only the error message: the
\* entries and the published derived results stay as they were.
C24_RejectedAddKeepsAll ==
  [][ (/\ Len(fields) >= MAX_SCREENS
       /\ writer' = "addScreen" /\ errorMsg' = MsgMaximum
       /\ (writer # "addScreen" \/ errorMsg # MsgMaximum))
      => /\ screens' = screens
         /\ ids' = ids
         /\ calculatedScreens' = calculatedScreens
         /\ timers' = timers ]_vars

\* C24 witness: an add was rejected with six entries and six derived screens
\* published
C24_Witness ==
  /\ writer = "addScreen"
  /\ errorMsg = MsgMaximum
  /\ Len(screens) = MAX_SCREENS
  /\ Len(calculatedScreens) = MAX_SCREENS

\* C25: the capacity error is not sticky: the recompute that runs next after
\* a rejected add, over entries that are all valid, publishes Valid with an
\* empty message and a derived screen for every entry.
C25_CapacityErrorNotSticky ==
  [][ (/\ writer = "addScreen" /\ errorMsg = MsgMaximum
       /\ run' # "none"
       /\ errors' = {}
       /\ \A i \in 1 .. Len(screens') : ~InvalidScreen(screens'[i]))
      => (errorMsg' = "" /\ Len(calculatedScreens') = Len(screens')) ]_vars

\* C26: the pipeline quiesces: a step that runs a recompute without being an
\* edit leaves the collection alone and sets no timer, and in the end no
\* recompute is pending any more.
C26_PipelineQuiesces ==
  /\ [][ (run' # "none" /\ events' = events)
          => /\ screens' = screens
             /\ ids' = ids
             /\ errors' = errors
             /\ (timers' = timers \/ timers' = Tail(timers)) ]_vars
  /\ <>[](timers = <<>> /\ pc = "idle")

\* C26 witness: two edits were made, their timers have fired and nothing is
\* pending
C26_Witness ==
  /\ events >= 2
  /\ timers = <<>>
  /\ pc = "idle"
  /\ run # "none"
  /\ screens[1].diagonal = N(3)
  /\ screens[1].aspectX = Num(FP \div 20)

\* C27: the tuple-based calculateDimensions(diagonal, [x, y]) returns the
\* width and height that the record-based calculateDimensions(diagonal, x / y)
\* returns when diagonal, x and y are positive; where the two differ, the
\* diagonal or an aspect component is non-positive and the record-based one
\* returns zeros.
C27_TupleAgreesWithRecord ==
  LET record == IF result.fn = "calculateDimensions"
                THEN result.value
                ELSE calculateDimensions(args.diagonal,
                                         fDiv(args.aspectX, args.aspectY))
      tuple == IF result.fn = "calculateDimensionsTuple"
               THEN result.value
               ELSE calculateDimensionsTuple(args.diagonal,
                                             <<args.aspectX, args.aspectY>>)
      same == tuple = <<record.width, record.height>>
  IN result.fn \in {"calculateDimensions", "calculateDimensionsTuple"}
       => /\ ~GuardedInput => same
          /\ ~same => /\ \E name \in FieldNames : LeZero(args[name])
                      /\ record.width = Num(0)
                      /\ record.height = Num(0)

\* C27 witness: the tuple-based function was called for a 9 inch 16:3 screen
\* and returned the record-based function's width and height, which differ
C27_Witness ==
  /\ result.fn = "calculateDimensionsTuple"
  /\ args.diagonal = N(9) /\ args.aspectX = N(16) /\ args.aspectY = N(3)
  /\ result.value[1] # result.value[2]
  /\ result.value[1]
       = calculateDimensions(N(9), fDiv(N(16), N(3))).width

====
